---- MODULE Spec2Model ----
(***************************************************************************)
(* The cosmos exporter (exporter.go): Exporter.Collect and Exporter.Scrape *)
(* as a state machine.  One pull cycle is one invocation of Collect by the *)
(* metrics registry; a cycle sends samples on its channel and issues GETs  *)
(* to the node.  log.Fatal ends the whole process.                         *)
(***************************************************************************)
EXTENDS Integers, Sequences, FiniteSets, TLC

\* ---------------------------------------------------------------- bounds
\* Pull cycles the registry starts in one run of the process.
MaxCycles == 2
\* Seconds the wall clock advances in one run.
MaxTicks == 2

\* Goroutines in which the registry may run Collect at the same time.
Cycles == {1, 2}

\* ------------------------------------------------------------- constants
namespace == "cosmos"
url_status == "/status"
url_peers == "/net_info"

\* Fully qualified metric names (prometheus.BuildFQName(namespace, "", x)).
up == "cosmos_up"
latestBlockHeight == "cosmos_latest_block_height"
timeDiff == "cosmos_time_diff"
peersNum == "cosmos_peers_num"

\* ------------------------------------------------- wide integers (int64)
\* Seconds counts go beyond 32 bits (the zero time.Time is 62135596800 s
\* before the Unix epoch), so a count of seconds n is kept as the pair
\* [d, s] with n = d * 86400 + s and 0 <= s < 86400.
SecondsPerDay == 86400

Norm(d, s) == [d |-> d + (s \div SecondsPerDay), s |-> s % SecondsPerDay]

AddSeconds(a, n) == Norm(a.d, a.s + n)

\* a - b on int64 seconds counts.
Sub(a, b) == Norm(a.d - b.d, a.s - b.s)

Leq(a, b) == a.d < b.d \/ (a.d = b.d /\ a.s <= b.s)

\* --------------------------------------------------- strconv.ParseFloat
\* A string is a sequence of one-character strings.
DigitChars == {"0", "1", "2", "3", "4", "5", "6", "7", "8", "9"}

DigitVal(ch) ==
    CASE ch = "0" -> 0 [] ch = "1" -> 1 [] ch = "2" -> 2 [] ch = "3" -> 3
      [] ch = "4" -> 4 [] ch = "5" -> 5 [] ch = "6" -> 6 [] ch = "7" -> 7
      [] ch = "8" -> 8 [] ch = "9" -> 9

AllDigits(str) == Len(str) > 0 /\ \A i \in 1..Len(str) : str[i] \in DigitChars

RECURSIVE DecimalValue(_)
DecimalValue(str) ==
    IF str = <<>> THEN 0
    ELSE 10 * DecimalValue(SubSeq(str, 1, Len(str) - 1)) + DigitVal(str[Len(str)])

\* The leading digits of str, as atoi-like parsers read them.
RECURSIVE DigitPrefix(_)
DigitPrefix(str) ==
    IF str = <<>> \/ Head(str) \notin DigitChars THEN <<>>
    ELSE <<Head(str)>> \o DigitPrefix(Tail(str))

\* ParseFloat that keeps the digits read before a syntax error.
ParseFloatMutPrefix(str) ==
    IF str # <<>> /\ Head(str) \in {"+", "-"}
    THEN (IF Head(str) = "-" THEN -1 ELSE 1) * DecimalValue(DigitPrefix(Tail(str)))
    ELSE DecimalValue(DigitPrefix(str))

\* f, _ := strconv.ParseFloat(str, 64): the value of a well-formed decimal
\* integer with an optional sign, and 0 (with an error that the caller
\* drops) for anything else.
ParseFloat(str) ==
    IF str # <<>> /\ Head(str) \in {"+", "-"}
    THEN IF AllDigits(Tail(str))
         THEN (IF Head(str) = "-" THEN -1 ELSE 1) * DecimalValue(Tail(str))
         ELSE 0
    ELSE IF AllDigits(str) THEN DecimalValue(str) ELSE 0

\* ----------------------------------------------------------- time.Parse
\* A latest_block_time text.  layout says whether the text has the shape
\* of the layout "2006-01-02T15:04:05.999999999Z07:00"; the fields are the
\* numbers written in it.  frac is the fractional second in nanoseconds
\* (0: none written); the zone is "Z" (utc) or sign zh:zm.
TimeText(y, mo, dd, h, mi, sc, fr, zone) ==
    [layout |-> TRUE, year |-> y, month |-> mo, day |-> dd, hour |-> h,
     min |-> mi, sec |-> sc, frac |-> fr,
     utc |-> zone.utc, sign |-> zone.sign, zh |-> zone.zh, zm |-> zone.zm]

ZoneUTC == [utc |-> TRUE, sign |-> 1, zh |-> 0, zm |-> 0]

ZoneOf(sgn, h, m) == [utc |-> FALSE, sign |-> sgn, zh |-> h, zm |-> m]

\* A text that does not have the layout's shape ("", "yesterday").
NoTimeText ==
    [layout |-> FALSE, year |-> 0, month |-> 0, day |-> 0, hour |-> 0,
     min |-> 0, sec |-> 0, frac |-> 0, utc |-> TRUE, sign |-> 1, zh |-> 0, zm |-> 0]

isLeap(year) == year % 4 = 0 /\ (year % 100 # 0 \/ year % 400 = 0)

\* Days of a non-leap year before each month.
daysBefore == <<0, 31, 59, 90, 120, 151, 181, 212, 243, 273, 304, 334, 365>>

daysIn(month, year) ==
    IF month = 2 /\ isLeap(year) THEN 29
    ELSE daysBefore[month + 1] - daysBefore[month]

\* Days from 1970-01-01 to January 1 of year.
daysSinceEpoch(year) ==
    365 * (year - 1970)
    + ((year - 1) \div 4 - (year - 1) \div 100 + (year - 1) \div 400)
    - (1969 \div 4 - 1969 \div 100 + 1969 \div 400)

\* time.Date(year, month, day, 0, 0, 0, 0, UTC) in days since 1970-01-01.
DateDays(year, month, day) ==
    daysSinceEpoch(year) + daysBefore[month]
    + (IF isLeap(year) /\ month >= 3 THEN 1 ELSE 0) + (day - 1)

\* The seconds east of UTC the zone of a text names.
ZoneOffset(text) == IF text.utc THEN 0 ELSE text.sign * (text.zh * 3600 + text.zm * 60)

\* Whether time.Parse(layout, text) returns a nil error: the shape matches
\* and every field is in range.
ParseOK(text) ==
    /\ text.layout
    /\ text.month \in 1..12
    /\ text.day \in 1..daysIn(text.month, text.year)
    /\ text.hour \in 0..23
    /\ text.min \in 0..59
    /\ text.sec \in 0..59

\* Time{}.Unix(): the zero time, 0001-01-01T00:00:00Z.
ZeroTimeUnix == [d |-> -719162, s |-> 0]

\* The clock fields read as UTC, the zone dropped.
ParsedUnixMutNoZone(text) ==
    IF ParseOK(text)
    THEN Norm(DateDays(text.year, text.month, text.day),
              text.hour * 3600 + text.min * 60 + text.sec)
    ELSE ZeroTimeUnix

\* t, err := time.Parse(layout, text); t.Unix().  On an error t is the
\* zero Time, and the caller uses it all the same.
ParsedUnix(text) ==
    IF ParseOK(text)
    THEN Norm(DateDays(text.year, text.month, text.day),
              text.hour * 3600 + text.min * 60 + text.sec - ZoneOffset(text))
    ELSE ZeroTimeUnix

\* ------------------------------------------ the node's latest_block_time
\* The civil date of a day number (days since 1970-01-01).
CivilFromDays(z) ==
    LET zz == z + 719468
        era == zz \div 146097
        doe == zz - era * 146097
        yoe == (doe - doe \div 1460 + doe \div 36524 - doe \div 146096) \div 365
        doy == doe - (365 * yoe + yoe \div 4 - yoe \div 100)
        mp == (5 * doy + 2) \div 153
        dd == doy - (153 * mp + 2) \div 5 + 1
        mo == IF mp < 10 THEN mp + 3 ELSE mp - 9
    IN  [year |-> yoe + era * 400 + (IF mo <= 2 THEN 1 ELSE 0), month |-> mo, day |-> dd]

\* The text a node writes for the instant u (unix seconds) with fraction
\* fr, in the zone it is configured with.
Format(u, zone, fr) ==
    LET off == IF zone.utc THEN 0 ELSE zone.sign * (zone.zh * 3600 + zone.zm * 60)
        local == AddSeconds(u, off)
        civil == CivilFromDays(local.d)
    IN  TimeText(civil.year, civil.month, civil.day,
                 local.s \div 3600, (local.s % 3600) \div 60, local.s % 60, fr, zone)

\* -------------------------------------------------- responses of the node
\* A body: json says whether it is a JSON value that decodes into the
\* struct; has names the keys the object carries; the rest are the strings
\* under those keys.
Body(isJson, keys, h, t, n) ==
    [json |-> isJson, has |-> keys, height |-> h, time |-> t, npeers |-> n]

NotJSON == Body(FALSE, {}, <<>>, NoTimeText, <<>>)

\* A JSON object without a "result" (a JSON-RPC error, "{}").
EmptyObject == Body(TRUE, {}, <<>>, NoTimeText, <<>>)

StatusBody(h, t) == Body(TRUE, {"latest_block_height", "latest_block_time"}, h, t, <<>>)

PeersBody(n) == Body(TRUE, {"n_peers"}, <<>>, NoTimeText, n)

\* What one GET meets: "err" (client.Do fails: refused, timed out before
\* the headers), "readerr" (the body cannot be read to its end: reset,
\* timed out while reading), "resp" (a status code and a whole body).
TransportError == [kind |-> "err", code |-> 0, body |-> NotJSON]

ReadError == [kind |-> "readerr", code |-> 200, body |-> NotJSON]

Answer(code, body) == [kind |-> "resp", code |-> code, body |-> body]

\* Instants of the latest block, zones and fractions a node may write.
BlockInstants == {[d |-> 19723, s |-> 0], [d |-> 19722, s |-> 86399], [d |-> 19723, s |-> 11]}

Zones == {ZoneUTC, ZoneOf(1, 3, 0), ZoneOf(-1, 5, 30)}

Fractions == {0, 500000000}

BlockTimeTexts == {Format(u, z, f) : u \in BlockInstants, z \in Zones, f \in Fractions}

\* Texts time.Parse rejects: no layout shape, and February 30.
BadTimeTexts == {NoTimeText, TimeText(2024, 2, 30, 0, 0, 0, 0, ZoneUTC)}

ScenarioTime == Format([d |-> 19723, s |-> 0], ZoneUTC, 0)

ScenarioHeight == <<"1", "2", "3", "4", "5">>

HeightStrings ==
    {ScenarioHeight, <<"7">>, <<"0">>, <<"1", "2", "x">>, <<"x">>, <<"-", "3">>, <<>>}

PeerStrings == {<<"7">>, <<"2", "5">>, <<"x", "7">>, <<>>}

StatusBodies ==
    {StatusBody(h, ScenarioTime) : h \in HeightStrings}
    \cup {StatusBody(ScenarioHeight, t) : t \in BlockTimeTexts \cup BadTimeTexts}
    \cup {StatusBody(<<"x">>, NoTimeText)}

StatusResponses ==
    {TransportError, ReadError, Answer(200, NotJSON), Answer(500, NotJSON),
     Answer(500, EmptyObject)}
    \cup {Answer(200, b) : b \in StatusBodies}

PeersResponses ==
    {TransportError, ReadError, Answer(200, NotJSON), Answer(500, EmptyObject)}
    \cup {Answer(200, PeersBody(n)) : n \in PeerStrings}

\* The fewer answers of the runs that compare or interleave two cycles.
FewStatusResponses ==
    {TransportError, ReadError, Answer(200, NotJSON),
     Answer(200, StatusBody(ScenarioHeight, ScenarioTime)),
     Answer(200, StatusBody(<<"1", "2", "x">>, Format([d |-> 19723, s |-> 11], ZoneOf(1, 3, 0), 500000000))),
     Answer(200, StatusBody(<<"7">>, NoTimeText))}

FewPeersResponses ==
    {TransportError, Answer(200, NotJSON), Answer(200, PeersBody(<<"7">>)),
     Answer(200, PeersBody(<<"x", "7">>))}

\* ---------------------------------------------------------------- Scrape
\* The result of Exporter.Scrape for what the GET met: "err" (nil, err),
\* "fatal" (log.Fatal on the read error: the process exits), "ok" (body, nil).
\* The status code of the answer is not looked at.
Scrape(r) ==
    CASE r.kind = "err" -> "err"
      [] r.kind = "readerr" -> "fatal"
      [] OTHER -> "ok"

\* json.Unmarshal(body, &message): the fields of the struct the metrics read;
\* a key the object lacks leaves the field at its zero value "".
Unmarshal(body) ==
    [ok |-> body.json,
     LatestBlockHeight |-> IF "latest_block_height" \in body.has THEN body.height ELSE <<>>,
     LatestBlockTime |-> IF "latest_block_time" \in body.has THEN body.time ELSE NoTimeText,
     NPeers |-> IF "n_peers" \in body.has THEN body.npeers ELSE <<>>]

NoMessage == Unmarshal(NotJSON)

\* prometheus.MustNewConstMetric(desc, GaugeValue, v, labels...)
Sample(name, v, labels) == [name |-> name, labels |-> labels, value |-> v]

\* ----------------------------------------------------------------- state
VARIABLES
    alive,       \* the process has not exited
    now,         \* the wall clock, unix seconds
    ticks,       \* seconds the clock has advanced
    started,     \* pull cycles started so far
    recording,   \* whether the last finished cycle is kept for comparison
    node,        \* what the node may answer to the GETs of this run
    prev,        \* the last finished cycle (history)
    pc,          \* per cycle: where Collect stands
    sent,        \* per cycle: the samples sent on ch so far
    reqs,        \* per cycle: the GETs issued so far
    statusResp,  \* per cycle: what the /status GET met
    peersResp,   \* per cycle: what the /net_info GET met
    body,        \* per cycle: the body Scrape returned last
    message,     \* per cycle: the decoded status message
    pulledAt     \* per cycle: the time.Now() read for time_diff

vars == <<alive, now, ticks, started, recording, node, prev, pc, sent, reqs,
          statusResp, peersResp, body, message, pulledAt>>

NoResponse == [kind |-> "none", code |-> 0, body |-> NotJSON]

StartClock == [d |-> 19723, s |-> 10]

NoCycle ==
    [valid |-> FALSE, sent |-> <<>>, reqs |-> <<>>, statusResp |-> NoResponse,
     peersResp |-> NoResponse, pulledAt |-> StartClock]

InitWith(rec, statusAnswers, peersAnswers) ==
    /\ alive = TRUE
    /\ node = [status |-> statusAnswers, peers |-> peersAnswers]
    /\ now = StartClock
    /\ ticks = 0
    /\ started = 0
    /\ recording = rec
    /\ prev = NoCycle
    /\ pc = [c \in Cycles |-> "idle"]
    /\ sent = [c \in Cycles |-> <<>>]
    /\ reqs = [c \in Cycles |-> <<>>]
    /\ statusResp = [c \in Cycles |-> NoResponse]
    /\ peersResp = [c \in Cycles |-> NoResponse]
    /\ body = [c \in Cycles |-> NotJSON]
    /\ message = [c \in Cycles |-> NoMessage]
    /\ pulledAt = [c \in Cycles |-> StartClock]

Init == InitWith(FALSE, StatusResponses, PeersResponses)

InitPair == InitWith(TRUE, FewStatusResponses, FewPeersResponses)

InitConc == InitWith(FALSE, FewStatusResponses, FewPeersResponses)

\* --------------------------------------------------------------- Collect
\* log.Fatal: the process exits in the middle of cycle c.
Fatal(c) ==
    /\ alive' = FALSE
    /\ pc' = [pc EXCEPT ![c] = "fatal"]

\* diff := secs - t.Unix() read back as a float64, for the clock reading
\* nowv and the latest_block_time text.
TimeDiffValueMutSwapped(nowv, text) == Sub(ParsedUnix(text), nowv)

TimeDiffValue(nowv, text) == Sub(nowv, ParsedUnix(text))

\* Where Collect goes on after the time_diff sample: to the peers fetch,
\* whatever time.Parse returned.
AfterTimeDiffMutAbort(text) == IF ParseOK(text) THEN "peers" ELSE "done"

AfterTimeDiff(text) == "peers"

\* What cycle c has sent once the peers Scrape returned an error: nothing
\* is added and nothing is taken back.
OnPeersErrorMutZero(s) == Append(s, Sample(peersNum, 0, <<"localhost">>))

OnPeersError(s) == s

\* The registry calls Collect with a fresh channel.
Collect(c) ==
    /\ alive
    /\ pc[c] = "idle"
    /\ started < MaxCycles
    /\ started' = started + 1
    /\ pc' = [pc EXCEPT ![c] = "status"]
    /\ UNCHANGED <<alive, now, ticks, recording, node, prev, sent, reqs, statusResp,
                   peersResp, body, message, pulledAt>>

\* body, err := e.Scrape(url_status), and the err branch.
ScrapeStatus(c) ==
    /\ alive
    /\ pc[c] = "status"
    /\ \E r \in node.status :
        /\ statusResp' = [statusResp EXCEPT ![c] = r]
        /\ reqs' = [reqs EXCEPT ![c] = Append(@, url_status)]
        /\ CASE Scrape(r) = "err" ->
                  /\ sent' = [sent EXCEPT ![c] = Append(@, Sample(up, 0, <<>>))]
                  /\ pc' = [pc EXCEPT ![c] = "done"]
                  /\ UNCHANGED <<alive, body>>
             [] Scrape(r) = "fatal" ->
                  /\ Fatal(c)
                  /\ UNCHANGED <<sent, body>>
             [] OTHER ->
                  /\ body' = [body EXCEPT ![c] = r.body]
                  /\ pc' = [pc EXCEPT ![c] = "up"]
                  /\ UNCHANGED <<alive, sent>>
    /\ UNCHANGED <<now, ticks, started, recording, node, prev, peersResp, message, pulledAt>>

\* ch <- up 1, then json.Unmarshal(body, &message).
SendUp(c) ==
    /\ alive
    /\ pc[c] = "up"
    /\ sent' = [sent EXCEPT ![c] = Append(@, Sample(up, 1, <<>>))]
    /\ IF Unmarshal(body[c]).ok
       THEN /\ message' = [message EXCEPT ![c] = Unmarshal(body[c])]
            /\ pc' = [pc EXCEPT ![c] = "height"]
            /\ UNCHANGED alive
       ELSE /\ Fatal(c)
            /\ UNCHANGED message
    /\ UNCHANGED <<now, ticks, started, recording, node, prev, reqs, statusResp,
                   peersResp, body, pulledAt>>

\* ch <- latest_block_height.
SendHeight(c) ==
    /\ alive
    /\ pc[c] = "height"
    /\ sent' = [sent EXCEPT ![c] =
                   Append(@, Sample(latestBlockHeight,
                                    ParseFloat(message[c].LatestBlockHeight),
                                    <<"localhost">>))]
    /\ pc' = [pc EXCEPT ![c] = "timediff"]
    /\ UNCHANGED <<alive, now, ticks, started, recording, node, prev, reqs, statusResp,
                   peersResp, body, message, pulledAt>>

\* time.Parse, time.Now(), ch <- time_diff.
SendTimeDiff(c) ==
    /\ alive
    /\ pc[c] = "timediff"
    /\ pulledAt' = [pulledAt EXCEPT ![c] = now]
    /\ sent' = [sent EXCEPT ![c] =
                   Append(@, Sample(timeDiff,
                                    TimeDiffValue(now, message[c].LatestBlockTime),
                                    <<"localhost">>))]
    /\ pc' = [pc EXCEPT ![c] = AfterTimeDiff(message[c].LatestBlockTime)]
    /\ UNCHANGED <<alive, now, ticks, started, recording, node, prev, reqs, statusResp,
                   peersResp, body, message>>

\* body, err = e.Scrape(url_peers), and the err branch.
ScrapePeers(c) ==
    /\ alive
    /\ pc[c] = "peers"
    /\ \E r \in node.peers :
        /\ peersResp' = [peersResp EXCEPT ![c] = r]
        /\ reqs' = [reqs EXCEPT ![c] = Append(@, url_peers)]
        /\ CASE Scrape(r) = "err" ->
                  /\ sent' = [sent EXCEPT ![c] = OnPeersError(@)]
                  /\ pc' = [pc EXCEPT ![c] = "done"]
                  /\ UNCHANGED <<alive, body>>
             [] Scrape(r) = "fatal" ->
                  /\ Fatal(c)
                  /\ UNCHANGED <<sent, body>>
             [] OTHER ->
                  /\ body' = [body EXCEPT ![c] = r.body]
                  /\ pc' = [pc EXCEPT ![c] = "npeers"]
                  /\ UNCHANGED <<alive, sent>>
    /\ UNCHANGED <<now, ticks, started, recording, node, prev, statusResp, message, pulledAt>>

\* json.Unmarshal(body, &peers), ch <- peers_num.
SendPeers(c) ==
    /\ alive
    /\ pc[c] = "npeers"
    /\ IF Unmarshal(body[c]).ok
       THEN /\ sent' = [sent EXCEPT ![c] =
                           Append(@, Sample(peersNum, ParseFloat(Unmarshal(body[c]).NPeers),
                                            <<"localhost">>))]
            /\ pc' = [pc EXCEPT ![c] = "done"]
            /\ UNCHANGED alive
       ELSE /\ Fatal(c)
            /\ UNCHANGED sent
    /\ UNCHANGED <<now, ticks, started, recording, node, prev, reqs, statusResp,
                   peersResp, body, message, pulledAt>>

\* Collect has returned: the registry renders the samples and the cycle's
\* channel and locals are gone.
Return(c) ==
    /\ alive
    /\ pc[c] = "done"
    /\ prev' = IF recording
               THEN [valid |-> TRUE, sent |-> sent[c], reqs |-> reqs[c],
                     statusResp |-> statusResp[c], peersResp |-> peersResp[c],
                     pulledAt |-> pulledAt[c]]
               ELSE prev
    /\ pc' = [pc EXCEPT ![c] = "idle"]
    /\ sent' = [sent EXCEPT ![c] = <<>>]
    /\ reqs' = [reqs EXCEPT ![c] = <<>>]
    /\ statusResp' = [statusResp EXCEPT ![c] = NoResponse]
    /\ peersResp' = [peersResp EXCEPT ![c] = NoResponse]
    /\ body' = [body EXCEPT ![c] = NotJSON]
    /\ message' = [message EXCEPT ![c] = NoMessage]
    /\ pulledAt' = [pulledAt EXCEPT ![c] = StartClock]
    /\ UNCHANGED <<alive, now, ticks, started, recording, node>>

\* The wall clock advances by a second.
Tick ==
    /\ ticks < MaxTicks
    /\ ticks' = ticks + 1
    /\ now' = AddSeconds(now, 1)
    /\ UNCHANGED <<alive, started, recording, node, prev, pc, sent, reqs, statusResp,
                   peersResp, body, message, pulledAt>>

\* One pull cycle at a time.
Next ==
    \/ Tick
    \/ \E c \in {1} :
        \/ Collect(c)
        \/ ScrapeStatus(c)
        \/ SendUp(c)
        \/ SendHeight(c)
        \/ SendTimeDiff(c)
        \/ ScrapePeers(c)
        \/ SendPeers(c)
        \/ Return(c)

Spec == Init /\ [][Next]_vars

\* One pull cycle at a time, the last finished one kept for comparison.
SpecPair == InitPair /\ [][Next]_vars

\* Pull cycles in several goroutines at once.
NextConc ==
    \/ Tick
    \/ \E c \in Cycles :
        \/ Collect(c)
        \/ ScrapeStatus(c)
        \/ SendUp(c)
        \/ SendHeight(c)
        \/ SendTimeDiff(c)
        \/ ScrapePeers(c)
        \/ SendPeers(c)
        \/ Return(c)

SpecConc == InitConc /\ [][NextConc]_vars

\* ================================================================ claims
\* Cycle c has ended: Collect returned, or the process exited inside it.
Over(c) == pc[c] \in {"done", "fatal"}

Names(s) == [i \in 1..Len(s) |-> s[i].name]

Has(s, name) == \E i \in 1..Len(s) : s[i].name = name

Count(s, name) == Cardinality({i \in 1..Len(s) : s[i].name = name})

ValueOf(s, name) == s[CHOOSE i \in 1..Len(s) : s[i].name = name].value

\* Cycle c has issued a GET to url.
Asked(c, url) == \E i \in 1..Len(reqs[c]) : reqs[c][i] = url

IsPrefix(s, t) == Len(s) <= Len(t) /\ \A i \in 1..Len(s) : s[i] = t[i]

MetricOrder == <<up, latestBlockHeight, timeDiff, peersNum>>

\* The status fetch of a cycle failed, in the spec's sense: unreachable,
\* timed out (also while the body is read), HTTP 500, or not JSON.
StatusFetchFailed(r) ==
    \/ r.kind \in {"err", "readerr"}
    \/ r.kind = "resp" /\ (r.code = 500 \/ ~r.body.json)

\* The fetch returned a body and the body decoded.
FetchSucceeded(r) == r.kind = "resp" /\ r.body.json

\* The peers fetch failed: no answer, no whole body, or no JSON in it.
PeersFetchFailed(r) == r.kind \in {"err", "readerr"} \/ (r.kind = "resp" /\ ~r.body.json)

\* The number a string of an optional sign and decimal digits writes,
\* summed digit by digit from the units.
RECURSIVE Pow10(_)
Pow10(n) == IF n = 0 THEN 1 ELSE 10 * Pow10(n - 1)

RECURSIVE DigitSum(_, _)
DigitSum(str, i) ==
    IF i > Len(str) THEN 0
    ELSE DigitVal(str[i]) * Pow10(Len(str) - i) + DigitSum(str, i + 1)

IsDecimalNumber(str) ==
    LET digits == IF str # <<>> /\ str[1] \in {"+", "-"} THEN Tail(str) ELSE str
    IN  digits # <<>> /\ \A i \in 1..Len(digits) : digits[i] \in DigitChars

WrittenNumber(str) ==
    IF str[1] = "-" THEN 0 - DigitSum(Tail(str), 1)
    ELSE IF str[1] = "+" THEN DigitSum(Tail(str), 1)
    ELSE DigitSum(str, 1)

ExpectedGauge(str) == IF IsDecimalNumber(str) THEN WrittenNumber(str) ELSE 0

\* C1: in every pull cycle whose status fetch fails (unreachable, timed out
\* at any point, HTTP 500, or a body that is not JSON) Collect produces
\* exactly one sample, up = 0, and the peers endpoint is not queried.
C1_FailedStatusOnlyUpZero ==
    \A c \in Cycles :
        (Over(c) /\ StatusFetchFailed(statusResp[c])) =>
            /\ sent[c] = <<Sample(up, 0, <<>>)>>
            /\ reqs[c] = <<url_status>>

\* C2: whatever the status and peers fetches meet, no scrape makes the
\* process exit (and so every started cycle can complete).
C2_ProcessNeverExits == alive /\ \A c \in Cycles : pc[c] # "fatal"

C4_NoTimeDiffWhenUnparsable ==
    \A c \in Cycles :
        (/\ FetchSucceeded(statusResp[c])
         /\ "latest_block_time" \in statusResp[c].body.has
         /\ ~ParseOK(statusResp[c].body.time)) =>
            ~Has(sent[c], timeDiff)

C6_TimeDiffIsClockMinusBlockTime ==
    \A c \in Cycles :
        (/\ FetchSucceeded(statusResp[c])
         /\ "latest_block_time" \in statusResp[c].body.has
         /\ pc[c] \in {"peers", "npeers", "done", "fatal"}) =>
            /\ \A u \in BlockInstants, z \in Zones, f \in Fractions :
                  statusResp[c].body.time = Format(u, z, f) =>
                      /\ Count(sent[c], timeDiff) = 1
                      /\ ValueOf(sent[c], timeDiff) = Sub(pulledAt[c], u)
            /\ (/\ statusResp[c].body.time = TimeText(2024, 1, 1, 0, 0, 0, 0, ZoneUTC)
                /\ pulledAt[c] = [d |-> 19723, s |-> 10]) =>
                  ValueOf(sent[c], timeDiff) = [d |-> 0, s |-> 10]

C6_Witness ==
    \E c \in Cycles :
        /\ pc[c] = "done"
        /\ statusResp[c].kind = "resp"
        /\ statusResp[c].body.time = Format([d |-> 19722, s |-> 86399], ZoneOf(-1, 5, 30), 500000000)
        /\ pulledAt[c] = [d |-> 19723, s |-> 11]
        /\ Has(sent[c], timeDiff)
        /\ ValueOf(sent[c], timeDiff) = [d |-> 0, s |-> 12]

\* C7: a finished pull cycle that met the same status and peers responses
\* as the cycle before it sent the same samples, name by name, label by
\* label and value by value, except for the time_diff value, which is not
\* smaller than before when the clock has not gone back; a cycle starts
\* with nothing sent and nothing asked, and a cycle whose status fetch
\* returns an error sends up = 0 alone whatever the cycle before it sent.
C7_SameResponsesSameSamples ==
    /\ \A c \in Cycles : pc[c] = "status" => (sent[c] = <<>> /\ reqs[c] = <<>>)
    /\ \A c \in Cycles :
          (prev.valid /\ pc[c] = "done" /\ statusResp[c].kind = "err") =>
              sent[c] = <<Sample(up, 0, <<>>)>>
    /\ \A c \in Cycles :
          (/\ prev.valid
           /\ pc[c] = "done"
           /\ statusResp[c] = prev.statusResp
           /\ peersResp[c] = prev.peersResp) =>
              /\ Len(sent[c]) = Len(prev.sent)
              /\ reqs[c] = prev.reqs
              /\ \A i \in 1..Len(sent[c]) :
                    /\ sent[c][i].name = prev.sent[i].name
                    /\ sent[c][i].labels = prev.sent[i].labels
                    /\ sent[c][i].name # timeDiff => sent[c][i].value = prev.sent[i].value
                    /\ (sent[c][i].name = timeDiff /\ Leq(prev.pulledAt, pulledAt[c])) =>
                          Leq(prev.sent[i].value, sent[c][i].value)

C7_Witness ==
    \E c \in Cycles :
        /\ prev.valid
        /\ pc[c] = "done"
        /\ statusResp[c] = prev.statusResp
        /\ peersResp[c] = prev.peersResp
        /\ Len(sent[c]) = 4
        /\ pulledAt[c] # prev.pulledAt
        /\ ValueOf(sent[c], timeDiff) # ValueOf(prev.sent, timeDiff)

OwnResponsesOnly(c) ==
    /\ Len(sent[c]) >= 1 =>
          sent[c][1] = Sample(up, IF statusResp[c].kind = "err" THEN 0 ELSE 1, <<>>)
    /\ Has(sent[c], latestBlockHeight) =>
          ValueOf(sent[c], latestBlockHeight) = ExpectedGauge(Unmarshal(statusResp[c].body).LatestBlockHeight)
    /\ Has(sent[c], timeDiff) =>
          ValueOf(sent[c], timeDiff) = Sub(pulledAt[c], ParsedUnix(Unmarshal(statusResp[c].body).LatestBlockTime))
    /\ Has(sent[c], peersNum) =>
          ValueOf(sent[c], peersNum) = ExpectedGauge(Unmarshal(peersResp[c].body).NPeers)

\* C9: with two pull cycles in play, the samples of a cycle depend only on
\* the responses it received itself, and a failure in one cycle does not
\* keep the other from completing: a cycle that is under way can go on.
C9_CyclesIndependent ==
    \A c \in Cycles :
        /\ OwnResponsesOnly(c)
        /\ pc[c] \notin {"idle", "done", "fatal"} => alive

\* C10: what a cycle has sent is always a prefix of (up, latest_block_height,
\* time_diff, peers_num); the up sample is always sent; the other samples
\* appear only when up is 1.
C10_SamplesArePrefix ==
    \A c \in Cycles :
        /\ IsPrefix(Names(sent[c]), MetricOrder)
        /\ Over(c) => Count(sent[c], up) = 1
        /\ Len(sent[c]) >= 2 => sent[c][1].value = 1

====
